---- MODULE Spec2Model ----
(***************************************************************************)
(* Model of kernel_upgrade.py: Kernel (version lookup) and Upgrade (deb    *)
(* listing, ordering, download and dpkg installation), driven by main().   *)
(*                                                                         *)
(* A link text / filename is abstracted to the set of marker substrings    *)
(* the code tests with `in` ("amd64", "BUILD.LOG", "all", "lowlatency",    *)
(* "headers", "generic", "modules", "image"; none is a substring of        *)
(* another) and a flag telling whether the name has the dash/underscore    *)
(* layout on which _shorten_name() succeeds.                               *)
(***************************************************************************)
EXTENDS Integers, Sequences, FiniteSets, TLC

VARIABLES
    pc,             \* position of main() / Upgrade.__init__
    err,            \* uncaught exception type that ended the run, "none" while running
    index_page,     \* response of GET kernel.org: latest_link marker found? its text
    kernel_version, \* self.ver_str / self.kernel_version (sequence of characters)
    links,          \* fetch_deb_lst local: link texts of the listing, document order
    candidates,     \* fetch_deb_lst local `out`: texts that passed the filter
    out,            \* _deb_sort local `out`: the four slots
    packages,       \* self.packages
    cur,            \* 1-based position of the for loop of install_all_debs
    fetched,        \* get_deb local `f`: (filename, content) returned by _get_pkg_data
    disk,           \* working directory: filename -> content
    return_codes,   \* self.return_codes
    dpkg_rc,        \* exit codes returned by dpkg so far (logged at line 206)
    calls,          \* external operations performed so far, in order
    summary         \* which branch of main()'s final report ran

vars == <<pc, err, index_page, kernel_version, links, candidates, out, packages,
          cur, fetched, disk, return_codes, dpkg_rc, calls, summary>>

-----------------------------------------------------------------------------
(* Bounds of the model *)

MaxVerLen == 3
MaxLinks == 4
MaxCand == 2

-----------------------------------------------------------------------------
(* Values *)

NoneVal == [none |-> TRUE]

Text(marks, deb) == [marks |-> marks, deb |-> deb]

\* `marker in text`
In(marker, text) == marker \in text.marks

Arch == "amd64"

NSlots == 4

SeqsUpTo(S, n) == UNION {[1..k -> S] : k \in 0..n}

\* File names of a mainline build, and the other entries of its listing.
HeadersAll == Text({"headers", "all"}, TRUE)
HeadersGeneric == Text({"headers", "generic", "amd64"}, TRUE)
ModulesGeneric == Text({"modules", "generic", "amd64"}, TRUE)
ImageGeneric == Text({"image", "generic", "amd64"}, TRUE)
ImageLowlatency == Text({"image", "lowlatency", "amd64"}, TRUE)
BuildLog == Text({"BUILD.LOG"}, FALSE)
BuildLogArch == Text({"BUILD.LOG", "amd64"}, FALSE)

DebNames == <<HeadersAll, HeadersGeneric, ModulesGeneric, ImageGeneric>>

-----------------------------------------------------------------------------
(* Kernel: version text *)

VerChars == {"5", "."}

RECURSIVE LStrip(_)
LStrip(s) == IF s # <<>> /\ Head(s) = " " THEN LStrip(Tail(s)) ELSE s

RECURSIVE RStrip(_)
RStrip(s) ==
    IF s # <<>> /\ s[Len(s)] = " " THEN RStrip(SubSeq(s, 1, Len(s) - 1)) ELSE s

\* str.strip()
Strip(s) == LStrip(RStrip(s))

\* str.split('.'): always at least one token
RECURSIVE SplitDot(_)
SplitDot(s) ==
    IF s = <<>> THEN << <<>> >>
    ELSE LET rest == SplitDot(Tail(s))
         IN  IF Head(s) = "." THEN << <<>> >> \o rest
             ELSE << <<Head(s)>> \o Head(rest) >> \o Tail(rest)

\* '.'.join(tokens)
RECURSIVE JoinDot(_)
JoinDot(tokens) ==
    IF tokens = <<>> THEN <<>>
    ELSE IF Len(tokens) = 1 THEN Head(tokens)
    ELSE Head(tokens) \o <<".">> \o JoinDot(Tail(tokens))

\* (variant: the tuple is cut to its first three values before unpacking)
UnpackFirstThree(tokens) == Len(tokens) >= 3

\* self.major, self.minor, self.revision = <tuple>: unpacking needs three values
UnpackOK(tokens) == Len(tokens) = 3

IndexPages ==
    {[found |-> FALSE, text |-> <<>>]}
        \cup {[found |-> TRUE, text |-> t] : t \in SeqsUpTo(VerChars, MaxVerLen)}

-----------------------------------------------------------------------------
(* Upgrade.fetch_deb_lst: the filter *)

\* links[ittr-1] with Python's index: position 0 wraps to the last element
PrevLink(ls, i) == IF i = 1 THEN ls[Len(ls)] ELSE ls[i - 1]

\* (variant: an "all" entry is kept whatever precedes it)
KeepLinkAnyAll(ls, i) ==
    /\ \/ (In(Arch, ls[i]) /\ ~In("BUILD.LOG", ls[i]))
       \/ In("all", ls[i])
    /\ ~In("lowlatency", ls[i])

KeepLink(ls, i) ==
    /\ \/ (In(Arch, ls[i]) /\ ~In("BUILD.LOG", ls[i]))
       \/ (In(Arch, PrevLink(ls, i)) /\ In("all", ls[i]))
    /\ ~In("lowlatency", ls[i])

RECURSIVE FilterFrom(_, _)
FilterFrom(ls, i) ==
    IF i > Len(ls) THEN <<>>
    ELSE (IF KeepLink(ls, i) THEN <<ls[i]>> ELSE <<>>) \o FilterFrom(ls, i + 1)

FilterLinks(ls) == FilterFrom(ls, 1)

-----------------------------------------------------------------------------
(* Upgrade._deb_sort *)

\* the if/elif chain: index of the slot written for f, 0 when no branch matches
SlotOf(f) ==
    IF In("headers", f) /\ In("all", f) THEN 1
    ELSE IF In("headers", f) /\ In("generic", f) THEN 2
    ELSE IF In("modules", f) /\ In("generic", f) THEN 3
    ELSE IF In("image", f) /\ In("generic", f) THEN 4
    ELSE 0

RECURSIVE SortLoop(_, _)
SortLoop(o, files) ==
    IF files = <<>> THEN o
    ELSE LET f == Head(files)
             s == SlotOf(f)
         IN  SortLoop(IF s = 0 THEN o ELSE [o EXCEPT ![s] = f], Tail(files))

\* (variant: a slot already filled is not overwritten)
RECURSIVE SortLoopFirstWins(_, _)
SortLoopFirstWins(o, files) ==
    IF files = <<>> THEN o
    ELSE LET f == Head(files)
             s == SlotOf(f)
         IN  SortLoopFirstWins(IF s = 0 \/ o[s] # NoneVal THEN o
                               ELSE [o EXCEPT ![s] = f], Tail(files))

DebSortFirstWins(files) == SortLoopFirstWins([i \in 1..NSlots |-> NoneVal], files)

DebSort(files) == SortLoop([i \in 1..NSlots |-> NoneVal], files)

\* _shorten_name: only whether it returns or raises matters (it feeds log lines)
ShortenName(filename) ==
    IF filename = NoneVal THEN "AttributeError"
    ELSE IF ~filename.deb THEN "IndexError"
    ELSE "ok"

\* the logging loop that ends _deb_sort: the first slot whose name cannot be shortened
RECURSIVE LogSlots(_, _)
LogSlots(o, i) ==
    IF i > Len(o) THEN "ok"
    ELSE IF ShortenName(o[i]) # "ok" THEN ShortenName(o[i])
    ELSE LogSlots(o, i + 1)

-----------------------------------------------------------------------------
(* Environment: pages, files, dpkg *)

\* content of a file left in the working directory by an earlier run
Stale(name) == [src |-> "earlier run", of |-> name]

\* content of the response to GET <URL>/v<version>/<name> in this run
Body(name) == [src |-> "download", of |-> name]

\* an earlier run of the program leaves the files it fetched before it ended
StaleDisks ==
    {[n \in {DebNames[i] : i \in 1..k} |-> Stale(n)] : k \in 0..NSlots}

\* p.poll() after communicate(): 0, a positive exit status, or -N for signal N
ExitCodes == {0, 1, -9}

Call(op, arg) == [op |-> op, arg |-> arg]

SiteKinds ==
    {HeadersAll, HeadersGeneric, ModulesGeneric, ImageGeneric, ImageLowlatency,
     BuildLog, BuildLogArch}

\* listings the mainline page may serve
SiteListings == SeqsUpTo(SiteKinds, MaxLinks)

-----------------------------------------------------------------------------
(* Helpers of the install loop *)

\* tuple.index(x): first position holding x
IndexOf(t, x) == CHOOSE i \in 1..Len(t) : t[i] = x /\ \A j \in 1..(i - 1) : t[j] # x

\* (variant: the plan is walked from its last slot)
LoopItemReversed(pkgs, k) == pkgs[Len(pkgs) + 1 - k]

\* for deb in self.packages: the item of the k-th iteration
LoopItem(pkgs, k) == pkgs[k]

\* (variant: an existing file is left in place)
DeleteExistingNever(d, name) == d

\* _file_exists / _delete_file at the head of _get_pkg_data
DeleteExisting(d, name) ==
    IF name \in DOMAIN d THEN [n \in DOMAIN d \ {name} |-> d[n]] ELSE d

\* open(name, 'wb'); f.write(resp)
WriteFile(d, name, content) ==
    [n \in DOMAIN d \cup {name} |-> IF n = name THEN content ELSE d[n]]

\* (variant: success tested with rc <= 0)
RcCheckSigned(codes, pkgs, rc, deb_name) ==
    IF rc <= 0 THEN [codes EXCEPT ![IndexOf(pkgs, deb_name)] = TRUE] ELSE codes

\* (variant: the index is one too low; Python's index -1 is the last entry)
RcCheckOffByOne(codes, pkgs, rc, deb_name) ==
    LET i == IndexOf(pkgs, deb_name)
    IN  IF rc = 0 THEN [codes EXCEPT ![IF i = 1 THEN Len(codes) ELSE i - 1] = TRUE]
        ELSE codes

\* _rc_check: the new self.return_codes
RcCheck(codes, pkgs, rc, deb_name) ==
    IF rc = 0 THEN [codes EXCEPT ![IndexOf(pkgs, deb_name)] = TRUE] ELSE codes

\* (variant: a non-zero exit code ends the loop)
AfterInstallHalting(rc, k, n) ==
    IF rc # 0 THEN "summary" ELSE IF k < n THEN "get_deb" ELSE "summary"

\* where control goes once install_deb(deb) has returned in iteration k
AfterInstall(rc, k, n) == IF k < n THEN "get_deb" ELSE "summary"

\* all(u.return_codes)
AllTrue(codes) == \A i \in 1..Len(codes) : codes[i]

-----------------------------------------------------------------------------
(* Initial state: the process has started, main() has not run yet *)

Init ==
    /\ pc = "main"
    /\ err = "none"
    /\ index_page = NoneVal
    /\ kernel_version = <<>>
    /\ links = <<>>
    /\ candidates = <<>>
    /\ out = <<>>
    /\ packages = <<>>
    /\ cur = 0
    /\ fetched = <<>>
    /\ disk \in StaleDisks
    /\ return_codes = <<>>
    /\ dpkg_rc = <<>>
    /\ calls = <<>>
    /\ summary = "none"

Running == err = "none" /\ pc # "done"

\* an uncaught exception: the traceback position stays in pc
Raise(e) == err' = e /\ pc' = pc

-----------------------------------------------------------------------------
(* Actions *)

\* main(): double_check() sleeps, then Upgrade() is constructed
DoubleCheck ==
    /\ Running /\ pc = "main"
    /\ pc' = "kernel_init"
    /\ UNCHANGED <<err, index_page, kernel_version, links, candidates, out, packages,
                   cur, fetched, disk, return_codes, dpkg_rc, calls, summary>>

\* Kernel.__init__ (_update, _fetch_latest) and Upgrade.__init__ up to line 96
ResolveVersion ==
    /\ Running /\ pc = "kernel_init"
    /\ calls' = Append(calls, Call("GET_index", NoneVal))
    /\ \/ /\ Raise("ConnectionError")
          /\ UNCHANGED <<index_page, kernel_version, return_codes>>
       \/ \E page \in IndexPages :
            /\ index_page' = page
            /\ IF ~page.found
               THEN /\ Raise("AttributeError")
                    /\ UNCHANGED <<kernel_version, return_codes>>
               ELSE LET kernel_ver == SplitDot(Strip(page.text))
                    IN  IF ~UnpackOK(kernel_ver)
                        THEN /\ Raise("ValueError")
                             /\ UNCHANGED <<kernel_version, return_codes>>
                        ELSE /\ kernel_version' = JoinDot(kernel_ver)
                             /\ return_codes' = [i \in 1..NSlots |-> FALSE]
                             /\ pc' = "fetch_deb_lst"
                             /\ err' = err
    /\ UNCHANGED <<links, candidates, out, packages, cur, fetched, disk, dpkg_rc,
                   summary>>

\* fetch_deb_lst and the _deb_sort it returns through; Listings is what the page
\* may hold
FetchDebLst(Listings) ==
    /\ Running /\ pc = "fetch_deb_lst"
    /\ calls' = Append(calls, Call("GET_listing", NoneVal))
    /\ \/ /\ Raise("ConnectionError")
          /\ UNCHANGED <<links, candidates, out>>
       \/ /\ Raise("AttributeError")      \* the page has no <body> or <code> element
          /\ UNCHANGED <<links, candidates, out>>
       \/ \E ls \in Listings :
            LET cands == FilterLinks(ls)
                slots == DebSort(cands)
                logged == LogSlots(slots, 1)
            IN  /\ links' = ls
                /\ candidates' = cands
                /\ out' = slots
                /\ IF logged = "ok"
                   THEN pc' = "resolved" /\ err' = err
                   ELSE Raise(logged)
    /\ UNCHANGED <<index_page, kernel_version, packages, cur, fetched, disk,
                   return_codes, dpkg_rc, summary>>

\* self.packages = <returned tuple>; install_all_debs() starts its loop. The locals
\* of fetch_deb_lst and _deb_sort end with the call.
AssignPackages ==
    /\ Running /\ pc = "resolved"
    /\ packages' = out
    /\ links' = <<>> /\ candidates' = <<>> /\ out' = <<>>
    /\ cur' = 1
    /\ pc' = "get_deb"
    /\ UNCHANGED <<err, index_page, kernel_version, fetched, disk, return_codes,
                   dpkg_rc, calls, summary>>

\* get_deb up to the request: log line, then _get_pkg_data removes an existing file
StartGetDeb ==
    /\ Running /\ pc = "get_deb"
    /\ LET deb == LoopItem(packages, cur)
       IN  IF ShortenName(deb) # "ok"
           THEN Raise(ShortenName(deb)) /\ UNCHANGED <<disk, calls>>
           ELSE /\ disk' = DeleteExisting(disk, deb)
                /\ calls' = IF deb \in DOMAIN disk
                            THEN Append(calls, Call("rm", deb)) ELSE calls
                /\ pc' = "download"
                /\ err' = err
    /\ UNCHANGED <<index_page, kernel_version, links, candidates, out, packages, cur,
                   fetched, return_codes, dpkg_rc, summary>>

\* requests.get(...).content in _get_pkg_data
Download ==
    /\ Running /\ pc = "download"
    /\ LET deb == LoopItem(packages, cur)
       IN  /\ calls' = Append(calls, Call("GET_deb", deb))
           /\ \/ Raise("ConnectionError") /\ UNCHANGED fetched
              \/ /\ fetched' = <<deb, Body(deb)>>
                 /\ pc' = "write"
                 /\ err' = err
    /\ UNCHANGED <<index_page, kernel_version, links, candidates, out, packages, cur,
                   disk, return_codes, dpkg_rc, summary>>

\* _write_pkg_data, and the end of get_deb
WritePkgData ==
    /\ Running /\ pc = "write"
    /\ disk' = WriteFile(disk, fetched[1], fetched[2])
    /\ calls' = Append(calls, Call("write", fetched[1]))
    /\ fetched' = <<>>
    /\ pc' = "install_deb"
    /\ UNCHANGED <<err, index_page, kernel_version, links, candidates, out, packages,
                   cur, return_codes, dpkg_rc, summary>>

\* install_deb: _install_deb runs sudo dpkg -i, _rc_check records the result
InstallDeb ==
    /\ Running /\ pc = "install_deb"
    /\ LET deb == LoopItem(packages, cur)
       IN  /\ calls' = Append(calls, Call("dpkg", deb))
           /\ \/ /\ Raise("OSError")        \* Popen cannot start sudo
                 /\ UNCHANGED <<return_codes, dpkg_rc, cur>>
              \/ /\ Raise("TypeError")      \* SUDO_PASS is None: None + '\n'
                 /\ UNCHANGED <<return_codes, dpkg_rc, cur>>
              \/ \E rc \in ExitCodes :
                   /\ dpkg_rc' = Append(dpkg_rc, rc)
                   /\ return_codes' = RcCheck(return_codes, packages, rc, deb)
                   /\ pc' = AfterInstall(rc, cur, Len(packages))
                   /\ cur' = IF pc' = "get_deb" THEN cur + 1 ELSE cur
                   /\ err' = err
    /\ UNCHANGED <<index_page, kernel_version, links, candidates, out, packages,
                   fetched, disk, summary>>

\* main(): the final report
Summary ==
    /\ Running /\ pc = "summary"
    /\ summary' = IF AllTrue(return_codes) THEN "success" ELSE "failure"
    /\ pc' = "done"
    /\ UNCHANGED <<err, index_page, kernel_version, links, candidates, out, packages,
                   cur, fetched, disk, return_codes, dpkg_rc, calls>>

\* signal_handler: Ctrl+C ends the process wherever it is
Interrupt ==
    /\ Running
    /\ Raise("SystemExit")
    /\ UNCHANGED <<index_page, kernel_version, links, candidates, out, packages, cur,
                   fetched, disk, return_codes, dpkg_rc, calls, summary>>

Next ==
    \/ DoubleCheck
    \/ ResolveVersion
    \/ FetchDebLst(SiteListings)
    \/ AssignPackages
    \/ StartGetDeb
    \/ Download
    \/ WritePkgData
    \/ InstallDeb
    \/ Summary
    \/ Interrupt

Spec == Init /\ [][Next]_vars

-----------------------------------------------------------------------------
(* Plan resolution on its own: the state after a successful version lookup,  *)
(* then fetch_deb_lst over shuffled mainline listings and over all short     *)
(* sequences of names that pass the filter.                                  *)

\* the listing of a mainline build directory; bl is its build-log entry
MainlineListing(bl) ==
    <<HeadersGeneric, HeadersAll, ModulesGeneric, ImageGeneric, bl, ImageLowlatency>>

Perms(n) == {p \in [1..n -> 1..n] : \A i, j \in 1..n : p[i] = p[j] => i = j}

ShuffledListings ==
    {[i \in 1..6 |-> MainlineListing(bl)[p[i]]] :
        p \in Perms(6), bl \in {BuildLog, BuildLogArch}}

\* every name that carries the architecture token and any of the role markers
CandKinds ==
    {Text({Arch} \cup m, TRUE) :
        m \in SUBSET {"headers", "all", "generic", "modules", "image"}}

\* sequences of exactly k such names
CandListings(k) == [1..k -> CandKinds]

InitResolve ==
    /\ pc = "fetch_deb_lst"
    /\ err = "none"
    /\ index_page = [found |-> TRUE, text |-> <<"5", ".", "5", ".", "5">>]
    /\ kernel_version = <<"5", ".", "5", ".", "5">>
    /\ links = <<>>
    /\ candidates = <<>>
    /\ out = <<>>
    /\ packages = <<>>
    /\ cur = 0
    /\ fetched = <<>>
    /\ disk = [n \in {} |-> NoneVal]
    /\ return_codes = [i \in 1..NSlots |-> FALSE]
    /\ dpkg_rc = <<>>
    /\ calls = <<Call("GET_index", NoneVal)>>
    /\ summary = "none"

NextResolve ==
    \/ FetchDebLst(ShuffledListings)
    \/ \E k \in 0..MaxCand : FetchDebLst(CandListings(k))

SpecResolve == InitResolve /\ [][NextResolve]_vars

-----------------------------------------------------------------------------
(* Vocabulary of the properties *)

IsPrefix(s, t) == Len(s) <= Len(t) /\ \A i \in 1..Len(s) : s[i] = t[i]

CallsOf(ops) == SelectSeq(calls, LAMBDA c : c.op \in ops)

\* fetch, write, install of each slot in turn
CanonicalCalls(pkgs) ==
    [k \in 1..(3 * Len(pkgs)) |->
        Call(<<"GET_deb", "write", "dpkg">>[((k - 1) % 3) + 1], pkgs[((k - 1) \div 3) + 1])]

\* the four roles, by the markers that identify them
IsRole(r, f) ==
    CASE r = 1 -> In("headers", f) /\ In("all", f)
      [] r = 2 -> In("headers", f) /\ In("generic", f)
      [] r = 3 -> In("modules", f) /\ In("generic", f)
      [] r = 4 -> In("image", f) /\ In("generic", f)

\* the first role, in priority order, that f matches; 0 when it matches none
FirstRole(f) ==
    IF \E r \in 1..NSlots : IsRole(r, f)
    THEN CHOOSE r \in 1..NSlots : IsRole(r, f) /\ \A q \in 1..(r - 1) : ~IsRole(q, f)
    ELSE 0

\* the last candidate whose first role is r
LastOfRole(cands, r) ==
    LET idx == {i \in 1..Len(cands) : FirstRole(cands[i]) = r}
    IN  IF idx = {} THEN NoneVal
        ELSE cands[CHOOSE i \in idx : \A j \in idx : j <= i]

InstallReturned == pc = "install_deb" /\ Len(dpkg_rc') = Len(dpkg_rc) + 1

NDots(text) == Cardinality({i \in 1..Len(text) : text[i] = "."})

PlanIncomplete == Len(out) = NSlots /\ \E r \in 1..NSlots : out[r] = NoneVal

IsMainlineShuffle(ls) ==
    /\ Len(ls) = 6
    /\ \A f \in {HeadersAll, HeadersGeneric, ModulesGeneric, ImageGeneric,
                 ImageLowlatency} :
           Cardinality({i \in 1..6 : ls[i] = f}) = 1
    /\ Cardinality({i \in 1..6 : ls[i] \in {BuildLog, BuildLogArch}}) = 1

-----------------------------------------------------------------------------
(* Properties *)

\* C1: every run that reaches the install loop handles the artifacts in the
\* role order headers-all, headers-arch, modules, image, and for each slot in
\* turn downloads it, writes it, then installs it; no step is reordered or
\* repeated.
C1_CanonicalOrder ==
    /\ packages # <<>> =>
          /\ Len(packages) = NSlots
          /\ \A r \in 1..NSlots : IsRole(r, packages[r])
    /\ IsPrefix(CallsOf({"GET_deb", "write", "dpkg"}), CanonicalCalls(packages))
    /\ CallsOf({"GET_deb", "write", "dpkg"}) # <<>> => packages # <<>>

C1_Witness ==
    /\ pc = "done"
    /\ CallsOf({"GET_deb", "write", "dpkg"}) = CanonicalCalls(DebNames)

\* C2: whatever exit code dpkg returns for a slot, the loop goes on to the
\* next slot (or, after the fourth, to the summary): every run whose installs
\* all return has fetched and installed all four slots.
C2_ContinuesAfterFailure ==
    /\ [][InstallReturned =>
            /\ err' = "none"
            /\ IF cur < NSlots THEN pc' = "get_deb" /\ cur' = cur + 1
               ELSE pc' = "summary"]_vars
    /\ [](pc \in {"summary", "done"} =>
            /\ Len(dpkg_rc) = NSlots
            /\ Len(CallsOf({"GET_deb"})) = NSlots
            /\ Len(CallsOf({"dpkg"})) = NSlots)

C2_Witness ==
    /\ pc = "done"
    /\ dpkg_rc = <<0, 0, 1, 0>>
    /\ CallsOf({"dpkg"})[4] = Call("dpkg", ImageGeneric)

\* C3: each slot's recorded outcome is true exactly when that slot's install
\* returned 0, and the final report is the success one exactly when all four
\* installs returned 0.
C3_OverallSuccess ==
    /\ \A i \in 1..Len(dpkg_rc) : return_codes[i] <=> (dpkg_rc[i] = 0)
    /\ \A i \in (Len(dpkg_rc) + 1)..Len(return_codes) : ~return_codes[i]
    /\ pc = "done" =>
          /\ Len(dpkg_rc) = NSlots
          /\ summary \in {"success", "failure"}
          /\ summary = "success" <=> \A i \in 1..NSlots : dpkg_rc[i] = 0

C3_Witness ==
    /\ pc = "done"
    /\ dpkg_rc = <<0, 0, 0, -9>>
    /\ summary = "failure"

\* C4 (as claimed): when a slot is unresolved after filtering and
\* classification, the run ends with an IncompletePlanError and no artifact
\* is fetched or installed.
C4_IncompletePlanError ==
    PlanIncomplete =>
        /\ err = "IncompletePlanError"
        /\ CallsOf({"GET_deb", "dpkg"}) = <<>>

\* C5 (as claimed): the link at position i is kept iff it has no lowlatency
\* marker and either has the architecture token and no BUILD.LOG marker, or
\* has "all" and the link at position i-1 has the architecture token; the
\* first link has no predecessor.
C5_ClaimedKeep(ls, i) ==
    /\ ~In("lowlatency", ls[i])
    /\ \/ (In(Arch, ls[i]) /\ ~In("BUILD.LOG", ls[i]))
       \/ (In("all", ls[i]) /\ i > 1 /\ In(Arch, ls[IF i > 1 THEN i - 1 ELSE 1]))

C5_FilterByPredecessor ==
    links # <<>> =>
        candidates = [k \in 1..Cardinality({i \in 1..Len(links) : C5_ClaimedKeep(links, i)})
                        |-> links[CHOOSE i \in 1..Len(links) :
                              /\ C5_ClaimedKeep(links, i)
                              /\ Cardinality({j \in 1..i : C5_ClaimedKeep(links, j)}) = k]]

\* C6 (as claimed): every permutation of a mainline listing resolves to the
\* complete plan.
C6_AnyOrderComplete ==
    IsMainlineShuffle(links) => (err = "none" /\ out = DebNames)

\* C6 (amended): a permutation of a mainline listing resolves to the complete
\* plan exactly when the entry before the headers-all entry (the last entry
\* when headers-all comes first) carries the architecture token; otherwise
\* the headers-all slot stays empty and resolution ends in an AttributeError.
C6_CompleteIffAllFollowsArch ==
    IsMainlineShuffle(links) =>
        LET a == CHOOSE i \in 1..6 : links[i] = HeadersAll
            before == links[IF a = 1 THEN 6 ELSE a - 1]
        IN  IF In(Arch, before)
            THEN err = "none" /\ pc = "resolved" /\ out = DebNames
            ELSE /\ err = "AttributeError"
                 /\ out = <<NoneVal, HeadersGeneric, ModulesGeneric, ImageGeneric>>

C6_Witness ==
    /\ IsMainlineShuffle(links)
    /\ links[1] = ImageGeneric /\ links[6] = HeadersAll
    /\ pc = "resolved" /\ out = DebNames

C8_LastWriteWins ==
    Len(out) = NSlots =>
        /\ \A r \in 1..NSlots : out[r] = LastOfRole(candidates, r)
        /\ err # "none" => \E r \in 1..NSlots : ShortenName(out[r]) # "ok"

C8_Witness ==
    /\ Len(candidates) = 2
    /\ candidates[1] # candidates[2]
    /\ FirstRole(candidates[1]) = 3
    /\ FirstRole(candidates[2]) = 3 /\ IsRole(4, candidates[2])
    /\ out = <<NoneVal, NoneVal, candidates[2], NoneVal>>
    /\ err = "AttributeError"

\* C9: the outcome vector has one entry per plan slot, in plan order; entry i
\* changes only in the step in which the install of slot i returns, and never
\* after that.
C9_OutcomeWrittenOnce ==
    /\ [](packages # <<>> => Len(return_codes) = Len(packages))
    /\ [][\A i \in 1..NSlots :
            /\ (i \in DOMAIN return_codes /\ return_codes'[i] # return_codes[i]) =>
                  /\ InstallReturned
                  /\ cur = i
                  /\ calls'[Len(calls')] = Call("dpkg", packages[i])
            /\ Len(dpkg_rc) >= i => return_codes'[i] = return_codes[i]]_vars

C9_Witness ==
    /\ pc = "done"
    /\ return_codes = <<TRUE, FALSE, TRUE, FALSE>>

\* C10: dpkg is only ever started on a file that holds what was downloaded
\* for it in this run; a file of that name left by an earlier run is removed
\* before the download starts, and when the download fails the run ends with
\* the artifact neither installed nor present in the working directory.
C10_NeverInstallsStale ==
    /\ pc = "install_deb" =>
          /\ packages[cur] \in DOMAIN disk
          /\ disk[packages[cur]] = Body(packages[cur])
    /\ pc \in {"download", "write"} => packages[cur] \notin DOMAIN disk
    /\ (pc = "download" /\ err = "ConnectionError") =>
          \A k \in 1..Len(calls) : calls[k] # Call("dpkg", packages[cur])
    /\ \A k \in 1..Len(calls) :
          calls[k].op = "dpkg" => (k > 1 /\ calls[k - 1] = Call("write", calls[k].arg))

C10_Witness ==
    /\ pc = "install_deb" /\ cur = 4
    /\ \E k \in 1..Len(calls) : calls[k] = Call("rm", packages[4])
    /\ disk[packages[4]] = Body(packages[4])

====
